---- MODULE Spec2Model ----
(***************************************************************************)
(* A model of the seatgeek-mcp tool server: the HTTP fetch client with its *)
(* retry loop, the per-tool query builders, the tool handlers up to the    *)
(* requests they issue, the processing of the upstream payloads, and the   *)
(* server process with its transports and signal handlers.                 *)
(***************************************************************************)
EXTENDS Integers, Sequences, FiniteSets, TLC

VARIABLES
    \* ---- fetchJson (tools/shared.ts, shared/helpers.ts) ----
    fpc,        \* position of the call: "off" | "idle" | "get" | "sleep" | "returned" | "raised"
    attempt,    \* the loop variable of fetchJson
    backoffMs,  \* the local backoffMs
    waits,      \* the delays handed to setTimeout, in order
    hist,       \* the outcome of every axios.get issued by this call, in order
    fres,       \* what the call returned or raised
    \* ---- one tool invocation ----
    clientId,   \* process.env.SEATGEEK_CLIENT_ID
    tool,       \* the tool (and generation) whose handler runs
    args,       \* the argument object handed to the handler
    hpc,        \* position of the handler
    sent,       \* the fetchJson calls issued so far: url and query, in order
    found,      \* what the pre-resolution lookups delivered
    hres,       \* what the handler resolved with (or that it threw)
    schemaGen,  \* which generation of schemas/eventModels.ts is built in
    \* ---- the server process (server.ts) ----
    srv         \* the process: transport mode, sockets, signal handlers, output streams

fetchVars == <<fpc, attempt, backoffMs, waits, hist, fres>>

toolVars == <<clientId, tool, args, hpc, sent, found, hres, schemaGen>>

vars == <<fpc, attempt, backoffMs, waits, hist, fres,
          clientId, tool, args, hpc, sent, found, hres, schemaGen, srv>>

-----------------------------------------------------------------------------
(* Networking defaults *)

MAX_RETRIES == 2

INITIAL_BACKOFF_MS == 500

(* The payloads a successful response may carry. *)
Payloads == {"d1", "d2"}

(* Error codes axios sets on a failure without a response. *)
TimeoutCodes == {"ECONNABORTED", "ETIMEDOUT"}

NetworkCodes == {"ENOTFOUND", "ECONNREFUSED"}

(* Statuses of the responses axios rejects (validateStatus: 2xx only). *)
ErrorStatuses == {304, 404, 499, 500, 503, 599}

NoOutcome == [kind |-> "none", code |-> "", status |-> 0, data |-> ""]

OkOutcome(d) == [kind |-> "ok", code |-> "", status |-> 200, data |-> d]

CodeOutcome(c) == [kind |-> "err", code |-> c, status |-> 0, data |-> ""]

StatusOutcome(s) ==
    [kind |-> "err",
     code |-> IF s >= 500 THEN "ERR_BAD_RESPONSE" ELSE "ERR_BAD_REQUEST",
     status |-> s, data |-> ""]

(* Every way one axios.get can settle. *)
Outcomes ==
    {OkOutcome(d) : d \in Payloads}
      \cup {CodeOutcome(c) : c \in TimeoutCodes \cup NetworkCodes \cup {"ERR_NETWORK"}}
      \cup {StatusOutcome(s) : s \in ErrorStatuses}

IsTimeoutAbortedOnly(o) == o.code = "ECONNABORTED"

IsTimeout(o) == o.code \in TimeoutCodes

IsNetworkDnsOnly(o) == o.code = "ENOTFOUND"

IsNetwork(o) == o.code \in NetworkCodes

HasResponse(o) == o.status # 0

RetryableStatusAll4xx(status) == status >= 400 /\ status < 600

RetryableStatus(status) == status >= 500 /\ status < 600

NextBackoffLinear(b) == b + INITIAL_BACKOFF_MS + INITIAL_BACKOFF_MS

NextBackoff(b) == b * 2

NoResult == [kind |-> "none", data |-> "", msg |-> "", n |-> 0, cause |-> NoOutcome]

Returned(d) == [kind |-> "returned", data |-> d, msg |-> "", n |-> 0, cause |-> NoOutcome]

(* new Error(`<msg> after ${MAX_RETRIES + 1} attempts`) *)
RaisedMsg(m) ==
    [kind |-> "raised", data |-> "", msg |-> m, n |-> MAX_RETRIES + 1, cause |-> NoOutcome]

(* throw error: the error object received from axios, unchanged *)
RaisedTransport(o) == [kind |-> "raised", data |-> "", msg |-> "", n |-> 0, cause |-> o]

FetchOff ==
    /\ fpc = "off"
    /\ attempt = 0
    /\ backoffMs = 0
    /\ waits = <<>>
    /\ hist = <<>>
    /\ fres = NoResult

(* let backoffMs = 500; for (let attempt = 0; ...) *)
FetchCall ==
    /\ fpc = "idle"
    /\ fpc' = "get"
    /\ backoffMs' = INITIAL_BACKOFF_MS
    /\ attempt' = 0
    /\ UNCHANGED <<waits, hist, fres>>
    /\ UNCHANGED <<toolVars, srv>>

(* await setTimeout(backoffMs): the delay is recorded when the sleep starts. *)
StartSleep ==
    /\ fpc' = "sleep"
    /\ waits' = Append(waits, backoffMs)
    /\ UNCHANGED <<attempt, backoffMs, fres>>

Raise(r) ==
    /\ fpc' = "raised"
    /\ fres' = r
    /\ UNCHANGED <<attempt, backoffMs, waits>>

(* One pass through the try/catch of the loop body: axios.get settles with o. *)
AxiosGet(o) ==
    /\ fpc = "get"
    /\ hist' = Append(hist, o)
    /\ UNCHANGED <<toolVars, srv>>
    /\ IF o.kind = "ok"
         THEN /\ fpc' = "returned"
              /\ fres' = Returned(o.data)
              /\ UNCHANGED <<attempt, backoffMs, waits>>
       ELSE IF IsTimeout(o)
         THEN IF attempt >= MAX_RETRIES
                THEN Raise(RaisedMsg("Request timeout"))
                ELSE StartSleep
       ELSE IF IsNetwork(o)
         THEN IF attempt >= MAX_RETRIES
                THEN Raise(RaisedMsg("Network error"))
                ELSE StartSleep
       ELSE IF HasResponse(o) /\ RetryableStatus(o.status) /\ attempt < MAX_RETRIES
         THEN StartSleep
       ELSE Raise(RaisedTransport(o))

(* The timer fires: backoffMs *= 2; continue (attempt++ and the loop test). *)
BackoffElapsed ==
    /\ fpc = "sleep"
    /\ backoffMs' = NextBackoff(backoffMs)
    /\ attempt' = attempt + 1
    /\ IF attempt + 1 <= MAX_RETRIES
         THEN /\ fpc' = "get"
              /\ fres' = fres
         ELSE /\ fpc' = "raised"
              /\ fres' = RaisedMsg("Request failed")
    /\ UNCHANGED <<waits, hist>>
    /\ UNCHANGED <<toolVars, srv>>

FetchNext ==
    \/ FetchCall
    \/ \E o \in Outcomes : AxiosGet(o)
    \/ BackoffElapsed

-----------------------------------------------------------------------------
(* JSON values as the handlers see them.  k is the JavaScript type, s the   *)
(* text of a string, n the number (a boolean is 0 or 1), o the members of   *)
(* an object as <<key, text>> pairs.                                        *)

Undef == [k |-> "undefined", s |-> "", n |-> 0, o |-> {}]

Null == [k |-> "null", s |-> "", n |-> 0, o |-> {}]

Str(x) == [k |-> "string", s |-> x, n |-> 0, o |-> {}]

Num(i) == [k |-> "number", s |-> "", n |-> i, o |-> {}]

Bool(b) == [k |-> "boolean", s |-> "", n |-> IF b THEN 1 ELSE 0, o |-> {}]

Obj(members) == [k |-> "object", s |-> "", n |-> 0, o |-> members]

(* JavaScript truthiness: if (value) *)
Truthy(v) ==
    CASE v.k = "undefined" -> FALSE
      [] v.k = "null" -> FALSE
      [] v.k = "string" -> v.s # ""
      [] v.k = "number" -> v.n # 0
      [] v.k = "boolean" -> v.n = 1
      [] OTHER -> TRUE

IsAbsent(v) == v.k \in {"undefined", "null"}

Min(a, b) == IF a < b THEN a ELSE b

-----------------------------------------------------------------------------
(* Endpoints *)

EVENTS_ENDPOINT == "/events"

PERFORMERS_ENDPOINT == "/performers"

VENUES_ENDPOINT == "/venues"

SECTION_INFO_ENDPOINT == "/events/section_info"

RECOMMENDATIONS_ENDPOINT == "/recommendations"

-----------------------------------------------------------------------------
(* The tools, one name per generation found in the repository. *)

ListingTools ==
    {"list_events", "seatgeek_events_v1", "seatgeek_events_v2",
     "list_performers", "seatgeek_performers",
     "list_venues", "seatgeek_venues",
     "get_recommendations", "seatgeek_recommendations"}

SectionTools == {"get_event_sections", "seatgeek_event_sections"}

SpecificTools ==
    {"get_performer_recommendations", "get_event_recommendations", "get_performer_events"}

FindEventsTools == {"find_events", "find_events_v1"}

Tools ==
    ListingTools \cup SectionTools \cup SpecificTools \cup
    FindEventsTools \cup
    {"find_event_recommendations", "find_event_recommendations_v1",
     "find_performer_recommendations",
     "retrieve_event_venue_information", "retrieve_event_venue_information_by_id"}

(* The tools whose handler has no try block around the argument validation. *)
UnguardedParse ==
    {"seatgeek_events_v1", "seatgeek_events_v2", "seatgeek_performers", "seatgeek_venues",
     "seatgeek_event_sections", "seatgeek_recommendations", "find_events", "find_events_v1"}

(* The tools whose handler has no try block around the fetch. *)
UnguardedFetch ==
    {"seatgeek_events_v1", "seatgeek_events_v2", "seatgeek_performers", "seatgeek_venues",
     "seatgeek_event_sections", "seatgeek_recommendations"}

Paging == {"per_page", "page", "format"}

VenueArgs == {"venue_city", "venue_state", "venue_country"}

DateArgs == {"start_utc", "end_utc"}

GeoArgs == {"geoip", "lat", "lon", "postal_code", "range"}

(* The keys of each tool's argument schema. *)
ToolFields(t) ==
    CASE t = "list_events" ->
           {"q", "performer_slug", "sort"} \cup VenueArgs \cup DateArgs \cup Paging
      [] t = "seatgeek_events_v1" ->
           {"q", "id", "type", "addons_visible", "performer_id", "performer_slug", "sort"}
             \cup VenueArgs \cup DateArgs \cup Paging
      [] t = "seatgeek_events_v2" ->
           {"q", "performer_slug", "sort"} \cup VenueArgs \cup DateArgs \cup Paging
      [] t \in FindEventsTools -> {"q"} \cup VenueArgs \cup DateArgs \cup Paging
      [] t = "list_performers" -> {"q", "slug", "sort"} \cup Paging
      [] t = "seatgeek_performers" ->
           {"q", "id", "slug", "type", "taxonomies", "sort"} \cup Paging
      [] t \in {"list_venues", "seatgeek_venues"} ->
           {"city", "state", "country", "postal_code", "q", "id", "sort"} \cup Paging
      [] t \in SectionTools -> {"eventId", "format"}
      [] t \in {"get_recommendations", "seatgeek_recommendations"} ->
           {"performer_id", "event_id"} \cup GeoArgs \cup Paging
      [] t \in {"find_event_recommendations", "find_event_recommendations_v1"} ->
           {"q"} \cup GeoArgs \cup DateArgs \cup Paging
      [] t = "find_performer_recommendations" ->
           {"event_q", "performer_q"} \cup VenueArgs \cup DateArgs \cup Paging
      [] t = "retrieve_event_venue_information" -> {"q"} \cup Paging
      [] t = "retrieve_event_venue_information_by_id" -> {"event_id", "page", "format"}
      [] t = "get_performer_recommendations" -> {"performer_id"} \cup Paging
      [] t = "get_event_recommendations" ->
           {"performer_id", "event_id"} \cup DateArgs \cup VenueArgs \cup GeoArgs \cup Paging
      [] t = "get_performer_events" ->
           {"performer_slug", "sort"} \cup DateArgs \cup VenueArgs \cup Paging

(* The keys the schema requires (z.number() / z.string() without optional). *)
RequiredFields(t) ==
    CASE t \in SectionTools -> {"eventId"}
      [] t = "retrieve_event_venue_information" -> {"q"}
      [] t = "retrieve_event_venue_information_by_id" -> {"event_id"}
      [] t = "get_performer_recommendations" -> {"performer_id"}
      [] t = "get_performer_events" -> {"performer_slug"}
      [] OTHER -> {}

(* z.number().optional() without nullable: get_event_recommendations ids. *)
NonNullableFields(t) ==
    IF t = "get_event_recommendations" THEN {"performer_id", "event_id"} ELSE {}

AllFields == UNION {ToolFields(t) : t \in Tools}

NumberFields == {"id", "performer_id", "event_id", "eventId", "lat", "lon"}

BooleanFields == {"geoip", "addons_visible"}

(* The values a caller may give a key (besides leaving it out). *)
FieldValues(f) ==
    CASE f = "per_page" -> {Num(0), Num(3), Num(50), Num(51)}
      [] f = "page" -> {Num(0), Num(2)}
      [] f = "format" -> {Str("json"), Str("structured")}
      [] f \in NumberFields -> {Null, Num(7)}
      [] f \in BooleanFields -> {Null, Bool(TRUE), Bool(FALSE)}
      [] f = "taxonomies" -> {Null, Obj({<<"name", "rock">>}), Obj({<<"name", "">>, <<"id", "5">>})}
      [] OTHER -> {Null, Str(""), Str("a")}

NoArgs == [f \in AllFields |-> Undef]

(* Schema.parse(args) succeeds. *)
ValidArgs(t, a) ==
    \* per_page: z.number().min(1).max(50).default(10)
    /\ a["per_page"] = Undef
         \/ (a["per_page"].k = "number" /\ a["per_page"].n >= 1 /\ a["per_page"].n <= 50)
    \* page: z.number().min(1).default(1)
    /\ a["page"] = Undef \/ (a["page"].k = "number" /\ a["page"].n >= 1)
    /\ \A f \in RequiredFields(t) : ~IsAbsent(a[f])
    /\ \A f \in NonNullableFields(t) : a[f] # Null

(* The parsed object: the schema's defaults filled in. *)
Parse(a) ==
    [a EXCEPT !["per_page"] = IF @ = Undef THEN Num(10) ELSE @,
              !["page"] = IF @ = Undef THEN Num(1) ELSE @,
              !["format"] = IF @ = Undef THEN Str("structured") ELSE @]

-----------------------------------------------------------------------------
(* Query maps: functions from parameter name to value. *)

EmptyQuery == [x \in {} |-> Undef]

(* query[key] = v *)
Put(q, key, v) == (key :> v) @@ q

(* if (v) { query[key] = v; } *)
PutIfTruthy(q, key, v) == IF Truthy(v) THEN Put(q, key, v) ELSE q

(* the filter loop: value !== null && value !== undefined *)
DropNothing(q) == q

DropAbsent(q) == [x \in {y \in DOMAIN q : ~IsAbsent(q[y])} |-> q[x]]

(* the filter loop: value !== null && value !== undefined && value !== '' *)
DropAbsentOrEmpty(q) ==
    [x \in {y \in DOMAIN q : ~IsAbsent(q[y]) /\ q[y] # Str("")} |-> q[x]]

(* withClientId: adds client_id when the environment has one *)
WithClientId(q) == IF Truthy(clientId) THEN Put(q, "client_id", clientId) ELSE q

(* Math.min(params.per_page, 50) *)
ClampPerPageMax(p) == Num(IF p["per_page"].n > 50 THEN p["per_page"].n ELSE 50)

ClampPerPage(p) == Num(Min(p["per_page"].n, 50))

(* the two date blocks shared by the builders *)
WithDates(p, q) ==
    PutIfTruthy(PutIfTruthy(q, "datetime_utc.gte", p["start_utc"]),
                "datetime_utc.lte", p["end_utc"])

(* the three flat venue blocks *)
WithVenue(p, q) ==
    PutIfTruthy(PutIfTruthy(PutIfTruthy(q, "venue.city", p["venue_city"]),
                            "venue.state", p["venue_state"]),
                "venue.country", p["venue_country"])

(* the nested venue object of list_events: the truthy members only *)
VenueObject(p) ==
    Obj({<<m[1], p[m[2]].s>> :
           m \in {mm \in {<<"city", "venue_city">>, <<"state", "venue_state">>,
                          <<"country", "venue_country">>} : Truthy(p[mm[2]])}})

(* list_events: buildQuery *)
ListEventsQueryBothFilters(p) ==
    DropAbsentOrEmpty(WithDates(p, WithVenue(p,
        PutIfTruthy(("q" :> p["q"]) @@ ("per_page" :> ClampPerPage(p)) @@ ("page" :> p["page"])
                      @@ ("sort" :> p["sort"]),
                    "performers.slug", p["performer_slug"]))))

ListEventsQuery(p) ==
    LET base == ("q" :> p["q"]) @@ ("per_page" :> ClampPerPage(p)) @@ ("page" :> p["page"])
                  @@ ("sort" :> p["sort"])
        filt == IF Truthy(p["performer_slug"])
                  THEN Put(base, "performers.slug", p["performer_slug"])
                ELSE IF Truthy(p["venue_city"]) \/ Truthy(p["venue_state"]) \/ Truthy(p["venue_country"])
                  THEN Put(base, "venue", VenueObject(p))
                ELSE base
    IN DropAbsentOrEmpty(WithDates(p, filt))

(* seatgeek_events, first generation: buildQuery *)
SeatgeekEventsV1Query(p) ==
    LET base == ("q" :> p["q"]) @@ ("id" :> p["id"]) @@ ("type" :> p["type"])
                  @@ ("addons_visible" :> p["addons_visible"])
                  @@ ("performers.id" :> p["performer_id"])
                  @@ ("performers.slug" :> p["performer_slug"])
                  @@ ("venue.city" :> p["venue_city"]) @@ ("venue.state" :> p["venue_state"])
                  @@ ("venue.country" :> p["venue_country"])
                  @@ ("per_page" :> ClampPerPage(p)) @@ ("page" :> p["page"])
                  @@ ("sort" :> p["sort"])
    IN WithClientId(DropAbsent(WithDates(p, base)))

(* seatgeek_events, second generation: buildQuery *)
SeatgeekEventsV2Query(p) ==
    LET base == ("q" :> p["q"]) @@ ("performers.slug" :> p["performer_slug"])
                  @@ ("venue.city" :> p["venue_city"]) @@ ("venue.state" :> p["venue_state"])
                  @@ ("venue.country" :> p["venue_country"])
                  @@ ("per_page" :> ClampPerPage(p)) @@ ("page" :> p["page"])
                  @@ ("sort" :> p["sort"])
    IN WithClientId(DropAbsent(WithDates(p, base)))

(* find_events: buildQuery(params, performerSlug?) *)
FindEventsQuery(p, performerSlug) ==
    LET base == ("per_page" :> ClampPerPage(p)) @@ ("page" :> p["page"])
        filt == IF Truthy(performerSlug)
                  THEN Put(base, "performers.slug", performerSlug)
                  ELSE WithVenue(p, Put(base, "q", p["q"]))
    IN DropAbsentOrEmpty(WithDates(p, filt))

(* list_performers: buildQuery *)
ListPerformersQuery(p) ==
    DropAbsent(("q" :> p["q"]) @@ ("slug" :> p["slug"]) @@ ("per_page" :> ClampPerPage(p))
                 @@ ("page" :> p["page"]) @@ ("sort" :> p["sort"]))

(* the taxonomies.{key} entries of seatgeek_performers *)
TaxonomyEntries(p) ==
    IF Truthy(p["taxonomies"])
      THEN [x \in {"taxonomies." \o m[1] : m \in p["taxonomies"].o} |->
              Str((CHOOSE m \in p["taxonomies"].o : "taxonomies." \o m[1] = x)[2])]
      ELSE EmptyQuery

(* seatgeek_performers: buildQuery *)
SeatgeekPerformersQuery(p) ==
    LET base == ("q" :> p["q"]) @@ ("id" :> p["id"]) @@ ("slug" :> p["slug"])
                  @@ ("type" :> p["type"]) @@ ("per_page" :> ClampPerPage(p))
                  @@ ("page" :> p["page"]) @@ ("sort" :> p["sort"])
    IN WithClientId(DropAbsent(TaxonomyEntries(p) @@ base))

(* list_venues: buildQuery *)
ListVenuesQuery(p) ==
    DropAbsent(("city" :> p["city"]) @@ ("state" :> p["state"]) @@ ("country" :> p["country"])
                 @@ ("postal_code" :> p["postal_code"]) @@ ("q" :> p["q"]) @@ ("id" :> p["id"])
                 @@ ("per_page" :> ClampPerPage(p)) @@ ("page" :> p["page"])
                 @@ ("sort" :> p["sort"]))

(* seatgeek_venues: buildQuery *)
SeatgeekVenuesQuery(p) == WithClientId(ListVenuesQuery(p))

(* the seed and geo entries shared by the recommendation builders *)
GeoEntries(p) ==
    ("geoip" :> p["geoip"]) @@ ("lat" :> p["lat"]) @@ ("lon" :> p["lon"])
      @@ ("postal_code" :> p["postal_code"]) @@ ("range" :> p["range"])

(* get_recommendations: buildQuery *)
GetRecommendationsQuery(p) ==
    DropAbsent(("performers.id" :> p["performer_id"]) @@ ("events.id" :> p["event_id"])
                 @@ GeoEntries(p) @@ ("per_page" :> ClampPerPage(p)) @@ ("page" :> p["page"]))

(* seatgeek_recommendations: buildQuery (per_page: params.per_page) *)
SeatgeekRecommendationsQuery(p) ==
    WithClientId(DropAbsent(
        ("performers.id" :> p["performer_id"]) @@ ("events.id" :> p["event_id"])
          @@ GeoEntries(p) @@ ("per_page" :> p["per_page"]) @@ ("page" :> p["page"])))

(* find_event_recommendations: buildQuery(params, performerId?, eventId?) *)
FindEventRecommendationsQueryOneSeed(p, performerId, eventId) ==
    LET base == GeoEntries(p) @@ ("per_page" :> ClampPerPage(p)) @@ ("page" :> p["page"])
        seed == IF Truthy(eventId) THEN Put(base, "events.id", eventId)
                ELSE PutIfTruthy(base, "performers.id", performerId)
    IN DropAbsent(WithDates(p, seed))

FindEventRecommendationsQuery(p, performerId, eventId) ==
    LET base == GeoEntries(p) @@ ("per_page" :> ClampPerPage(p)) @@ ("page" :> p["page"])
    IN DropAbsent(WithDates(p,
         PutIfTruthy(PutIfTruthy(base, "performers.id", performerId), "events.id", eventId)))

RECURSIVE JoinIds(_)
(* ids.join(',') *)
JoinIds(ids) ==
    IF Len(ids) = 0 THEN ""
    ELSE IF Len(ids) = 1 THEN ToString(ids[1])
    ELSE ToString(ids[1]) \o "," \o JoinIds(Tail(ids))

(* find_performer_recommendations: buildQuery(params, performerIds, eventIds) *)
FindPerformerRecommendationsQuery(p, performerIds, eventIds) ==
    LET base == ("per_page" :> ClampPerPage(p)) @@ ("page" :> p["page"])
        withP == IF Len(performerIds) > 0
                   THEN Put(WithDates(p, WithVenue(p, base)), "performer_ids", Str(JoinIds(performerIds)))
                   ELSE WithDates(p, WithVenue(p, base))
        withE == IF Len(eventIds) > 0
                   THEN Put(withP, "event_ids", Str(JoinIds(eventIds)))
                   ELSE withP
    IN DropAbsentOrEmpty(withE)

(* get_performer_recommendations: the query literal of the handler *)
GetPerformerRecommendationsQuery(p) ==
    ("performers.id" :> p["performer_id"]) @@ ("per_page" :> ClampPerPage(p))
      @@ ("page" :> p["page"])

(* get_event_recommendations: the query built in the handler *)
GetEventRecommendationsQuery(p) ==
    DropAbsent(WithVenue(p, WithDates(p,
        ("performers.id" :> p["performer_id"]) @@ ("events.id" :> p["event_id"])
          @@ GeoEntries(p) @@ ("per_page" :> ClampPerPage(p)) @@ ("page" :> p["page"]))))

(* get_performer_events: buildPerformerEventsQuery *)
PerformerEventsQuery(p) ==
    DropAbsentOrEmpty(WithVenue(p, WithDates(p,
        ("performers.slug" :> p["performer_slug"]) @@ ("per_page" :> ClampPerPage(p))
          @@ ("page" :> p["page"]) @@ ("sort" :> p["sort"]))))

(* The query a single-call tool sends. *)
MainQuery(t, p) ==
    CASE t = "list_events" -> ListEventsQuery(p)
      [] t = "seatgeek_events_v1" -> SeatgeekEventsV1Query(p)
      [] t = "seatgeek_events_v2" -> SeatgeekEventsV2Query(p)
      [] t = "list_performers" -> ListPerformersQuery(p)
      [] t = "seatgeek_performers" -> SeatgeekPerformersQuery(p)
      [] t = "list_venues" -> ListVenuesQuery(p)
      [] t = "seatgeek_venues" -> SeatgeekVenuesQuery(p)
      [] t = "get_event_sections" -> EmptyQuery
      [] t = "seatgeek_event_sections" -> WithClientId(EmptyQuery)
      [] t = "retrieve_event_venue_information_by_id" -> EmptyQuery
      [] t = "get_recommendations" -> GetRecommendationsQuery(p)
      [] t = "seatgeek_recommendations" -> SeatgeekRecommendationsQuery(p)
      [] t = "get_performer_recommendations" -> GetPerformerRecommendationsQuery(p)
      [] t = "get_event_recommendations" -> GetEventRecommendationsQuery(p)
      [] t = "get_performer_events" -> PerformerEventsQuery(p)

(* The endpoint a single-call tool fetches. *)
MainUrl(t) ==
    CASE t \in {"list_events", "seatgeek_events_v1", "seatgeek_events_v2", "get_performer_events"}
           -> EVENTS_ENDPOINT
      [] t \in {"list_performers", "seatgeek_performers"} -> PERFORMERS_ENDPOINT
      [] t \in {"list_venues", "seatgeek_venues"} -> VENUES_ENDPOINT
      [] t \in SectionTools \cup {"retrieve_event_venue_information_by_id"} -> SECTION_INFO_ENDPOINT
      [] OTHER -> RECOMMENDATIONS_ENDPOINT

(* The id appended to the section_info URL. *)
MainPath(t, p) ==
    CASE t \in SectionTools -> p["eventId"]
      [] t = "retrieve_event_venue_information_by_id" -> p["event_id"]
      [] OTHER -> Undef

SingleCallTools ==
    ListingTools \cup SectionTools \cup SpecificTools \cup {"retrieve_event_venue_information_by_id"}

(* One fetchJson call as the handler issues it.  auth: the request carries *)
(* an Authorization: Basic header, which the fetchJson of the later         *)
(* shared module adds when the environment has a client id; the tools that  *)
(* import withClientId are built with the earlier one, which sends the      *)
(* default headers only.                                                    *)
CallAuthAlways(url, path, query) ==
    [url |-> url, path |-> path, query |-> query, auth |-> Truthy(clientId)]

Call(url, path, query) ==
    [url |-> url, path |-> path, query |-> query,
     auth |-> /\ Truthy(clientId)
              /\ tool \notin {"seatgeek_events_v1", "seatgeek_events_v2",
                              "seatgeek_performers", "seatgeek_venues",
                              "seatgeek_event_sections", "seatgeek_recommendations"}]

-----------------------------------------------------------------------------
(* Upstream payloads.  An element of a resource array is described by what  *)
(* the schemas and the handlers look at: whether it is an object at all,    *)
(* its id and slug, whether every other key its schema requires is present *)
(* and well typed (rest), its venue, its venue_display key and, for a       *)
(* recommendation, its score and whether it has a nested event/performer    *)
(* (id, rest, venue and vd then describe that nested object).               *)

NoVenue == [k |-> "null", ok |-> TRUE, city |-> Null, state |-> Null]

VenueOf(city, state) == [k |-> "object", ok |-> TRUE, city |-> city, state |-> state]

Item(id, slug) ==
    [obj |-> TRUE, id |-> id, slug |-> slug, rest |-> TRUE, nested |-> TRUE,
     venue |-> NoVenue, vd |-> Undef, score |-> Num(1)]

NullItem ==
    [obj |-> FALSE, id |-> Undef, slug |-> Undef, rest |-> FALSE, nested |-> FALSE,
     venue |-> NoVenue, vd |-> Undef, score |-> Undef]

(* shape: "keyed" is an object holding the array under the resource key,    *)
(* "bare" the array itself, "nokey" an object without the key, "null" a     *)
(* null body.  sections: what the section_info body holds under sections;   *)
(* extra: the body has further keys no schema names.                        *)
Payload(shape, items, sections, extra) ==
    [shape |-> shape, items |-> items, sections |-> sections, extra |-> extra]

NoPayload == Payload("none", <<>>, "absent", FALSE)

Keyed(items) == Payload("keyed", items, "absent", FALSE)

(* How a fetchJson call (or a helper built on it) settles. *)
Pending == [st |-> "pending", data |-> NoPayload]

Fail == [st |-> "fail", data |-> NoPayload]

Ok(data) == [st |-> "ok", data |-> data]

(* data.events || [] and its siblings: the array of an object body *)
KeyedItems(data) == IF data.shape = "keyed" THEN data.items ELSE <<>>

(* Array.isArray(data) ? data : (data.performers || []) *)
BareOrKeyedItems(data) == IF data.shape = "bare" THEN data.items ELSE KeyedItems(data)

-----------------------------------------------------------------------------
(* Schemas (schemas/eventModels.ts).  schemaGen tells which generation of   *)
(* the file is in use: "strict" requires every key, "optional" lets         *)
(* venue_display (and a few others) be left out.                            *)

IsNumber(v) == v.k = "number"

(* PerformerSchema.parse succeeds *)
PerformerSchemaNoId(it) == it.obj /\ it.rest

PerformerSchema(it) == it.obj /\ IsNumber(it.id) /\ it.rest

(* VenueSchema.parse succeeds *)
VenueSchema(it) == it.obj /\ IsNumber(it.id) /\ it.rest

(* venue: VenueSchema.nullable() *)
NestedVenueOk(v) == v.k = "null" \/ (v.k = "object" /\ v.ok)

(* EventSchema.parse succeeds *)
EventSchema(gen, it) ==
    /\ it.obj
    /\ IsNumber(it.id)
    /\ it.rest
    /\ NestedVenueOk(it.venue)
    \* venue_display: z.string().nullable(), with .optional() in the later file
    /\ it.vd.k \in {"null", "string"} \/ (gen = "optional" /\ it.vd.k = "undefined")

(* parts.join(', ') || null for parts = [city, state].filter(Boolean) *)
VenueDisplay(city, state) ==
    IF Truthy(city) /\ Truthy(state) THEN Str(city.s \o ", " \o state.s)
    ELSE IF Truthy(city) THEN city
    ELSE IF Truthy(state) THEN state
    ELSE Null

(* An element of a structured result. *)
Out(form, it, vd) == [form |-> form, item |-> it, vd |-> vd]

(* the body of the events loop: parse, then attach venue_display *)
EventWithDisplay(it) ==
    IF it.venue.k = "object"
      THEN Out("event", it, VenueDisplay(it.venue.city, it.venue.state))
      ELSE Out("event", it, it.vd)

(* condenseEventData: no validation; throws on a null element *)
Condense(it) == Out("condensed", it, Undef)

-----------------------------------------------------------------------------
(* What a handler resolves with. *)

NoHres == [kind |-> "none", form |-> "", payload |-> NoPayload, items |-> <<>>]

(* { content: [{ type: 'text', text: JSON.stringify(...) }] } *)
Content(form, payload, items) ==
    [kind |-> "content", form |-> form, payload |-> payload, items |-> items]

(* the structured { error, details, suggestion } block of the catch clause *)
ErrorObject == [kind |-> "error_object", form |-> "", payload |-> NoPayload, items |-> <<>>]

(* the handler's promise rejects *)
Thrown == [kind |-> "thrown", form |-> "", payload |-> NoPayload, items |-> <<>>]

(* the dedicated body of retrieve_event_venue_information *)
NoEventsFound == [kind |-> "no_events", form |-> "", payload |-> NoPayload, items |-> <<>>]

ParseFailure(t) == IF t \in UnguardedParse THEN Thrown ELSE ErrorObject

FetchFailureThrown(t) == Thrown

FetchFailure(t) == IF t \in UnguardedFetch THEN Thrown ELSE ErrorObject

EventTools ==
    {"list_events", "seatgeek_events_v1", "seatgeek_events_v2", "get_performer_events",
     "find_events_v1"}

PerformerTools == {"list_performers", "seatgeek_performers"}

VenueTools == {"list_venues", "seatgeek_venues"}

(* The body of the result loop accepts the element (nothing is thrown and   *)
(* the element is pushed).                                                  *)
Accepts(t, gen, it) ==
    CASE t \in EventTools -> EventSchema(gen, it)
      [] t = "find_events" -> it.obj
      [] t \in PerformerTools -> PerformerSchema(it)
      [] t \in VenueTools -> VenueSchema(it)
      [] t = "get_recommendations" -> it.obj /\ IsNumber(it.score)
      [] t = "seatgeek_recommendations" ->
           it.obj /\ IsNumber(it.score) /\ it.nested /\ IsNumber(it.id) /\ it.rest
      [] t \in {"get_performer_recommendations", "find_performer_recommendations"} -> it.obj /\ it.nested /\ IsNumber(it.id) /\ it.rest
      [] t \in {"get_event_recommendations", "find_event_recommendations_v1"} -> it.obj /\ it.nested /\ EventSchema(gen, it)
      [] t = "find_event_recommendations" -> it.obj /\ it.nested
      [] OTHER -> FALSE

(* What the loop body pushes for an accepted element. *)
Pushed(t, it) ==
    CASE t \in EventTools -> EventWithDisplay(it)
      [] t \in {"find_events", "find_event_recommendations"} -> Condense(it)
      [] t \in PerformerTools \cup {"get_performer_recommendations",
                               "find_performer_recommendations", "seatgeek_recommendations"}
           -> Out("performer", it, Undef)
      [] t \in VenueTools -> Out("venue", it, Undef)
      [] t \in {"get_event_recommendations", "find_event_recommendations_v1"} -> Out("event", it, it.vd)
      [] OTHER -> Out("recommendation", it, Undef)

RECURSIVE ResultLoop(_, _, _)
(* for (const item of raw) { try { ...; results.push(...) } catch { skip } } *)
ResultLoop(t, gen, raw) ==
    IF raw = <<>> THEN <<>>
    ELSE (IF Accepts(t, gen, Head(raw)) THEN <<Pushed(t, Head(raw))>> ELSE <<>>)
           \o ResultLoop(t, gen, Tail(raw))

(* The array the loop runs over. *)
RawArray(t, data) ==
    IF t \in EventTools \cup {"find_events"} THEN KeyedItems(data) ELSE BareOrKeyedItems(data)

(* results.slice(0, params.per_page) of find_performer_recommendations *)
Limit(t, p, results) ==
    IF t = "find_performer_recommendations" /\ Len(results) > p["per_page"].n
      THEN SubSeq(results, 1, p["per_page"].n)
      ELSE results

SectionLikeTools ==
    SectionTools \cup {"retrieve_event_venue_information", "retrieve_event_venue_information_by_id"}

(* SectionInfoSchema.parse succeeds: sections: z.record(z.array(z.string())).nullable() *)
SectionInfoSchema(data) == data.shape \in {"keyed", "nokey"} /\ data.sections \in {"null", "map"}

(* the catch clause around SectionInfoSchema.parse *)
SectionFallbackError(data) == ErrorObject

SectionFallback(data) == Content("raw", data, <<>>)

(* Everything after the final fetch has delivered data. *)
Process(t, gen, p, data) ==
    IF p["format"] = Str("json") THEN Content("raw", data, <<>>)
    ELSE IF t \in SectionLikeTools
      THEN IF SectionInfoSchema(data)
             THEN Content("section", [data EXCEPT !.extra = FALSE, !.items = <<>>], <<>>)
             ELSE SectionFallback(data)
    ELSE IF data.shape = "null" THEN FetchFailure(t)
    ELSE Content("list", NoPayload, Limit(t, p, ResultLoop(t, gen, RawArray(t, data))))

-----------------------------------------------------------------------------
(* The handlers' locals. *)

NoFound ==
    [looked |-> FALSE, performers |-> <<>>, slugs |-> <<>>, branches |-> <<>>, merged |-> <<>>,
     \* the branches of the find_events fan-out, and the two lookups of
     \* find_performer_recommendations (1: performers, 2: events), in the order
     \* in which they settled
     order |-> <<>>,
     data |-> NoPayload,
     performerIds |-> <<>>, eventIds |-> <<>>, performerId |-> Undef, eventId |-> Undef,
     waitP |-> FALSE, waitE |-> FALSE,
     \* how the performer lookup and the event lookup settled, and the events found
     pReply |-> Pending, eReply |-> Pending, events |-> <<>>]

(* How many keys a caller sets in one argument object. *)
MaxArgs == 2

(* per_page of the two lookups of the first find_event_recommendations *)
LOOKUP_PER_PAGE == 10

RECURSIVE Unique(_)
(* [...new Set(values)]: the first occurrence of every value, in order *)
Unique(values) ==
    IF values = <<>> THEN <<>>
    ELSE LET front == Unique(SubSeq(values, 1, Len(values) - 1))
             last == values[Len(values)]
         IN IF \E i \in 1..Len(front) : front[i] = last THEN front ELSE Append(front, last)

(* performers.map(p => p.slug).filter(Boolean), made unique *)
SlugsAsListed(performers) == [i \in 1..Len(performers) |-> performers[i].slug]

UniqueSlugs(performers) ==
    Unique(SelectSeq([i \in 1..Len(performers) |-> performers[i].slug], Truthy))

(* items.map(x => x.id).filter(Boolean), made unique, as numbers *)
IdsAsListed(items) == [i \in 1..Len(items) |-> items[i].id.n]

UniqueIds(items) ==
    LET ids == Unique(SelectSeq([i \in 1..Len(items) |-> items[i].id], Truthy))
    IN [i \in 1..Len(ids) |-> ids[i].n]

RECURSIVE Concat(_)
(* the merge loop over the branch results *)
ConcatAsSettled(arrays) ==
    LET last == CHOOSE j \in 1..Len(arrays) : \A k \in 1..Len(found.order) : found.order[k] # j
        settledOrder == IF Len(found.order) + 1 = Len(arrays)
                          THEN Append(found.order, last)
                          ELSE [k \in 1..Len(arrays) |-> k]
        RECURSIVE From(_)
        From(k) == IF k > Len(settledOrder) THEN <<>>
                   ELSE arrays[settledOrder[k]] \o From(k + 1)
    IN From(1)

Concat(arrays) == IF arrays = <<>> THEN <<>> ELSE Head(arrays) \o Concat(Tail(arrays))

RECURSIVE DedupeById(_, _)
(* events.filter(e => eventIds.has(e.id) ? false : (eventIds.add(e.id), true)) *)
KeepDuplicates(events, seen) == events

DedupeById(events, seen) ==
    IF events = <<>> THEN <<>>
    ELSE IF Head(events).id \in seen THEN DedupeById(Tail(events), seen)
    ELSE <<Head(events)>> \o DedupeById(Tail(events), seen \cup {Head(events).id})

(* What searchPerformers / searchEvents resolve with: data.x || [], and [] *)
(* when the fetch (or reading the body) threw.                             *)
SearchResultWrongKey(r) == <<>>

SearchResult(r) == IF r.st = "ok" /\ r.data.shape # "null" THEN KeyedItems(r.data) ELSE <<>>

(* searchPerformers: the fetch of performerQuery *)
SearchPerformersCall(query, per_page, page) ==
    Call(PERFORMERS_ENDPOINT, Undef,
         ("q" :> query) @@ ("per_page" :> per_page) @@ ("page" :> page))

(* searchEvents: the fetch of filteredQuery; a key of additionalParams      *)
(* overrides q and per_page                                                 *)
SearchEventsCall(query, per_page, additionalParams) ==
    Call(EVENTS_ENDPOINT, Undef,
         DropAbsentOrEmpty(additionalParams @@ ("q" :> query) @@ ("per_page" :> per_page)))

(* The fetch whose data the handler processes, given what the lookups found. *)
FinalCall(t, p, f) ==
    CASE t \in FindEventsTools -> Call(EVENTS_ENDPOINT, Undef, FindEventsQuery(p, Undef))
      [] t \in {"find_event_recommendations", "find_event_recommendations_v1"} ->
           Call(RECOMMENDATIONS_ENDPOINT, Undef,
                FindEventRecommendationsQuery(p, f.performerId, f.eventId))
      [] t = "find_performer_recommendations" ->
           Call(RECOMMENDATIONS_ENDPOINT \o "/performers", Undef,
                FindPerformerRecommendationsQuery(p, f.performerIds, f.eventIds))
      [] t = "retrieve_event_venue_information" ->
           Call(SECTION_INFO_ENDPOINT, f.eventId, EmptyQuery)

(* events[0].id when there is a first event with a truthy id *)
FirstId(items) == IF Len(items) > 0 /\ Truthy(items[1].id) THEN items[1].id ELSE Undef

Issue(calls, pc) ==
    /\ sent' = sent \o calls
    /\ hpc' = pc
    /\ hres' = hres

Finish(r) ==
    /\ hpc' = "done"
    /\ hres' = r
    /\ sent' = sent

-----------------------------------------------------------------------------
(* The handlers. *)

(* The caller fills in one more key of the argument object. *)
SetArg(f, v) ==
    /\ hpc = "args"
    /\ f \in ToolFields(tool)
    /\ args[f] = Undef
    /\ Cardinality({g \in AllFields : args[g] # Undef}) < MaxArgs
    /\ args' = [args EXCEPT ![f] = v]
    /\ UNCHANGED <<fetchVars, srv, clientId, tool, hpc, sent, found, hres, schemaGen>>

(* The handler starts: Schema.parse(args), then everything up to its first  *)
(* await.                                                                   *)
Invoke ==
    /\ hpc = "args"
    /\ UNCHANGED <<fetchVars, srv, clientId, tool, args, schemaGen>>
    /\ IF ~ValidArgs(tool, args)
         THEN Finish(ParseFailure(tool)) /\ found' = found
         ELSE LET p == Parse(args) IN
              CASE tool \in SingleCallTools ->
                     /\ Issue(<<Call(MainUrl(tool), MainPath(tool, p), MainQuery(tool, p))>>, "main")
                     /\ found' = found
                [] tool \in FindEventsTools \cup {"find_event_recommendations"} ->
                     /\ IF Truthy(p["q"])
                          THEN Issue(<<SearchPerformersCall(p["q"], p["per_page"], Num(1))>>,
                                     "performers")
                          ELSE Issue(<<FinalCall(tool, p, found)>>, "main")
                     /\ found' = found
                [] tool = "find_event_recommendations_v1" ->
                     /\ IF Truthy(p["q"])
                          THEN Issue(<<Call(PERFORMERS_ENDPOINT, Undef,
                                            ("q" :> p["q"]) @@ ("per_page" :> Num(LOOKUP_PER_PAGE))
                                              @@ ("page" :> Num(1)))>>,
                                     "performers")
                          ELSE Issue(<<FinalCall(tool, p, found)>>, "main")
                     /\ found' = found
                [] tool = "find_performer_recommendations" ->
                     LET wp == Truthy(p["performer_q"])
                         we == Truthy(p["event_q"])
                         pc == IF wp THEN <<SearchPerformersCall(p["performer_q"], p["per_page"], Num(1))>>
                                     ELSE <<>>
                         ec == IF we THEN <<SearchEventsCall(p["event_q"], p["per_page"],
                                                             WithDates(p, WithVenue(p, EmptyQuery)))>>
                                     ELSE <<>>
                     IN IF wp \/ we
                          THEN /\ Issue(pc \o ec, "lookups")
                               /\ found' = [found EXCEPT !.waitP = wp, !.waitE = we]
                          ELSE /\ Issue(<<FinalCall(tool, p, found)>>, "main")
                               /\ found' = found
                [] tool = "retrieve_event_venue_information" ->
                     /\ Issue(<<SearchEventsCall(p["q"], p["per_page"], EmptyQuery)>>, "events_lookup")
                     /\ found' = found

(* searchPerformers (or the first lookup of find_event_recommendations_v1)  *)
(* settles, and the handler runs on to its next await.                      *)
PerformersSettle(r) ==
    /\ hpc = "performers"
    /\ UNCHANGED <<fetchVars, srv, clientId, tool, args, schemaGen>>
    /\ LET p == Parse(args)
           performers == SearchResult(r)
           slugs == UniqueSlugs(performers)
           got == [found EXCEPT !.looked = TRUE, !.performers = performers, !.pReply = r]
       IN CASE tool = "find_events" ->
                 IF Len(slugs) > 0
                   THEN /\ Issue([i \in 1..Len(slugs) |->
                                    Call(EVENTS_ENDPOINT, Undef, FindEventsQuery(p, slugs[i]))],
                                 "fanout")
                        /\ found' = [got EXCEPT !.slugs = slugs,
                                                !.branches = [i \in 1..Len(slugs) |-> Pending]]
                   ELSE /\ Issue(<<FinalCall(tool, p, found)>>, "main_inner")
                        /\ found' = got
            [] tool = "find_events_v1" ->
                 /\ IF Len(performers) > 0 /\ Truthy(performers[1].slug)
                      THEN Issue(<<Call(EVENTS_ENDPOINT, Undef,
                                        FindEventsQuery(p, performers[1].slug))>>, "main_inner")
                      ELSE Issue(<<FinalCall(tool, p, found)>>, "main_inner")
                 /\ found' = got
            [] tool = "find_event_recommendations" ->
                 IF Len(slugs) > 0
                   THEN /\ Issue([i \in 1..Len(slugs) |->
                                    SearchEventsCall(slugs[i], p["per_page"],
                                                     "performers.slug" :> slugs[i])],
                                 "fanout")
                        /\ found' = [got EXCEPT !.slugs = slugs,
                                                !.branches = [i \in 1..Len(slugs) |-> Pending]]
                   ELSE /\ Issue(<<SearchEventsCall(p["q"], p["per_page"], EmptyQuery)>>,
                                 "events_lookup")
                        /\ found' = got
            [] tool = "find_event_recommendations_v1" ->
                 /\ Issue(<<Call(EVENTS_ENDPOINT, Undef,
                                 ("q" :> p["q"]) @@ ("per_page" :> Num(LOOKUP_PER_PAGE)))>>,
                          "events_lookup")
                 /\ found' = [got EXCEPT !.performerId = FirstId(performers)]

(* One branch of the Promise.all fan-out settles. *)
BranchSettle(i, r) ==
    /\ hpc = "fanout"
    /\ i \in 1..Len(found.branches)
    /\ found.branches[i] = Pending
    /\ UNCHANGED <<fetchVars, srv, clientId, tool, args, schemaGen>>
    /\ LET p == Parse(args)
           branches == [found.branches EXCEPT ![i] = r]
           order == IF tool = "find_events" THEN Append(found.order, i) ELSE found.order
           settled == \A j \in 1..Len(branches) : branches[j] # Pending
       IN IF tool = "find_events"
            THEN IF r.st = "fail"
                        \/ (settled /\ \E j \in 1..Len(branches) : branches[j].data.shape = "null")
                   THEN \* Promise.all rejects (or the merge loop throws): the inner catch
                        /\ Issue(<<FinalCall(tool, p, found)>>, "main")
                        /\ found' = [found EXCEPT !.branches = branches, !.order = order]
                 ELSE IF settled
                   THEN LET merged == DedupeById(
                                Concat([j \in 1..Len(branches) |-> KeyedItems(branches[j].data)]), {})
                        IN /\ Finish(Process(tool, schemaGen, p, Keyed(merged)))
                           /\ found' = [found EXCEPT !.branches = branches, !.order = order, !.merged = merged,
                                                     !.data = Keyed(merged)]
                 ELSE /\ UNCHANGED <<hpc, sent, hres>>
                      /\ found' = [found EXCEPT !.branches = branches, !.order = order]
            ELSE IF settled
                   THEN LET merged == DedupeById(
                                Concat([j \in 1..Len(branches) |-> SearchResult(branches[j])]), {})
                            f == [found EXCEPT !.branches = branches, !.order = order, !.merged = merged,
                                               !.eventId = FirstId(merged)]
                        IN /\ Issue(<<FinalCall(tool, p, f)>>, "main")
                           /\ found' = f
                 ELSE /\ UNCHANGED <<hpc, sent, hres>>
                      /\ found' = [found EXCEPT !.branches = branches, !.order = order]

(* The single event lookup settles. *)
EventsLookupSettle(r) ==
    /\ hpc = "events_lookup"
    /\ UNCHANGED <<fetchVars, srv, clientId, tool, args, schemaGen>>
    /\ LET p == Parse(args)
           events == SearchResult(r)
       IN IF tool = "retrieve_event_venue_information"
            THEN IF Len(events) = 0
                   THEN Finish(NoEventsFound) /\ found' = [found EXCEPT !.eReply = r]
                   ELSE LET f == [found EXCEPT !.eventId = events[1].id, !.eReply = r,
                                               !.events = events]
                        IN Issue(<<FinalCall(tool, p, f)>>, "main") /\ found' = f
            ELSE LET f == [found EXCEPT !.eventId = FirstId(events), !.eReply = r,
                                        !.events = events]
                 IN Issue(<<FinalCall(tool, p, f)>>, "main") /\ found' = f

(* find_performer_recommendations: one of the two concurrent lookups        *)
(* settles; the recommendations fetch follows the later of them.            *)
LookupSettle(which, r) ==
    /\ hpc = "lookups"
    /\ IF which = "performer" THEN found.waitP ELSE found.waitE
    /\ UNCHANGED <<fetchVars, srv, clientId, tool, args, schemaGen>>
    /\ LET p == Parse(args)
           f == IF which = "performer"
                  THEN [found EXCEPT !.waitP = FALSE, !.pReply = r, !.order = Append(@, 1),
                                     !.performers = SearchResult(r),
                                     !.performerIds = UniqueIds(SearchResult(r))]
                  ELSE [found EXCEPT !.waitE = FALSE, !.eReply = r, !.order = Append(@, 2),
                                     !.events = SearchResult(r),
                                     !.eventIds = UniqueIds(SearchResult(r))]
       IN /\ found' = f
          /\ IF f.waitP \/ f.waitE
               THEN UNCHANGED <<hpc, sent, hres>>
               ELSE Issue(<<FinalCall(tool, p, f)>>, "main")

(* The fetch whose data is processed settles. *)
MainSettle(r) ==
    /\ hpc \in {"main", "main_inner"}
    /\ UNCHANGED <<fetchVars, srv, clientId, tool, args, schemaGen>>
    /\ IF r.st = "ok"
         THEN /\ Finish(Process(tool, schemaGen, Parse(args), r.data))
              /\ found' = [found EXCEPT !.data = r.data]
       ELSE IF hpc = "main_inner"
         THEN \* the catch of the inner try: buildQuery(params) and a second fetch
              /\ Issue(<<FinalCall(tool, Parse(args), found)>>, "main")
              /\ found' = found
       ELSE /\ Finish(FetchFailure(tool))
            /\ found' = found

-----------------------------------------------------------------------------
(* Specifications *)

ToolsOff ==
    /\ clientId = Undef
    /\ tool = "none"
    /\ args = NoArgs
    /\ hpc = "off"
    /\ sent = <<>>
    /\ found = NoFound
    /\ hres = NoHres
    /\ schemaGen = "strict"

(* What the environment may hold in SEATGEEK_CLIENT_ID. *)
ClientIds == {Undef, Str(""), Str("cid")}

(* A handler is about to be called. *)
HandlerInit(clients, tools, argSets, gens) ==
    /\ FetchOff
    /\ clientId \in clients
    /\ tool \in tools
    /\ args \in argSets
    /\ hpc = "args"
    /\ sent = <<>>
    /\ found = NoFound
    /\ hres = NoHres
    /\ schemaGen \in gens
    /\ srv = <<>>

Lists(pool, max) == UNION {[1..n -> pool] : n \in 0..max}

(* The bodies a lookup or a fan-out branch may deliver, and its failure. *)
Replies(lists) ==
    {Fail, Ok(Payload("null", <<>>, "absent", FALSE)), Ok(Payload("nokey", <<>>, "absent", FALSE))}
      \cup {Ok(Keyed(l)) : l \in lists}

P1 == Item(Num(1), Str("s1"))

P2 == Item(Num(2), Str("s2"))

E1 == Item(Num(11), Undef)

QueryPerformerReplies == {Fail, Ok(Keyed(<<>>)), Ok(Keyed(<<P1>>)), Ok(Keyed(<<P1, P2>>))}

QueryEventReplies == {Fail, Ok(Keyed(<<E1>>))}

MainReplies == {Fail, Ok(Keyed(<<>>)), Ok(Keyed(<<E1>>))}

(* Spec: every tool with every small argument object, up to the requests.  *)
Init == HandlerInit(ClientIds, Tools, {NoArgs}, {"strict"})

Next ==
    \/ \E f \in AllFields : \E v \in FieldValues(f) : SetArg(f, v)
    \/ Invoke
    \/ \E r \in QueryPerformerReplies : PerformersSettle(r)
    \/ \E i \in 1..2 : \E r \in QueryEventReplies : BranchSettle(i, r)
    \/ \E r \in QueryEventReplies : EventsLookupSettle(r)
    \/ \E w \in {"performer", "event"} :
         \E r \in (IF w = "performer"
                     THEN QueryPerformerReplies \cup {Ok(Keyed(<<P1, P1>>))}
                     ELSE QueryEventReplies
                            \cup {Ok(Keyed(<<>>)), Ok(Keyed(<<E1, Item(Num(0), Undef), E1>>))}) :
           LookupSettle(w, r)
    \/ \E r \in MainReplies : MainSettle(r)

Spec == Init /\ [][Next]_vars

-----------------------------------------------------------------------------
(* SpecList: the single-call and section tools with fixed arguments and    *)
(* every small upstream body.                                               *)

(* How many elements an upstream array holds. *)
MaxItems == 3

ListTools == ListingTools \cup SpecificTools \cup SectionLikeTools

(* The least argument object the schema of t accepts. *)
BaseArgs(t) ==
    [f \in AllFields |->
        IF f \in RequiredFields(t)
          THEN (IF f \in NumberFields THEN Num(7) ELSE Str("a"))
          ELSE Undef]

NoId == [P1 EXCEPT !.id = Undef]

EventOf(id, venue, vd) == [Item(Num(id), Undef) EXCEPT !.venue = venue, !.vd = vd]

(* The elements an upstream array may hold: events with and without a      *)
(* venue and a venue_display key, an element without id, a null element,   *)
(* and one lacking the other mandatory keys, its score and nested object.  *)
ItemPool ==
    {EventOf(1, NoVenue, Undef),
     EventOf(2, VenueOf(Str("New York"), Str("NY")), Undef),
     EventOf(3, VenueOf(Str("New York"), Null), Str("x")),
     NoId, NullItem,
     [P1 EXCEPT !.rest = FALSE, !.score = Undef, !.nested = FALSE]}

(* The bodies the final fetch may deliver (a section_info body or a        *)
(* listing body), and its failure.                                          *)
ListReplies ==
    {Fail}
      \cup {Ok(Payload("null", <<>>, "absent", FALSE))}
      \cup {Ok(Payload("nokey", <<>>, s, x)) :
              s \in {"absent", "null", "map", "array", "badmap"}, x \in BOOLEAN}
      \cup {Ok(Payload(shape, l, "absent", FALSE)) :
              shape \in {"keyed", "bare"}, l \in Lists(ItemPool, MaxItems)}

InitList ==
    /\ tool \in ListTools
    /\ HandlerInit({Str("cid")}, ListTools,
                   {BaseArgs(tool), [BaseArgs(tool) EXCEPT !["format"] = Str("json")]},
                   {"strict", "optional"})

NextList ==
    \/ Invoke
    \/ \E r \in QueryEventReplies \cup {Ok(Keyed(<<>>))} : EventsLookupSettle(r)
    \/ \E r \in ListReplies : MainSettle(r)

SpecList == InitList /\ [][NextList]_vars

-----------------------------------------------------------------------------
(* SpecFanout: the discovery tools that fan out over performer slugs.      *)

(* How many performers a lookup returns, and events one branch returns. *)
MaxPerformers == 2

MaxEvents == 2

(* q absent or given; without filters in the structured format, and with   *)
(* the venue and date filters in the raw format                             *)
FanoutArgs ==
    {[NoArgs EXCEPT !["q"] = q, !["venue_city"] = f[1], !["start_utc"] = f[2],
                    !["format"] = f[3]] :
        q \in {Undef, Str("Jazz Night")},
        f \in {<<Undef, Undef, Undef>>, <<Str("Austin"), Str("2026-01-01"), Str("json")>>}}

E2 == Item(Num(12), Undef)

(* The performer lists of the lookup: two slugs and an empty one in any     *)
(* arrangement, and a third slug listed last (the handlers never look into  *)
(* a slug, so a third slug listed elsewhere is a renaming of these lists).  *)
FanoutPerformerReplies ==
    Replies(Lists({P1, P2, Item(Num(4), Str(""))}, MaxPerformers)
              \cup {Append(l, Item(Num(3), Str("s3"))) : l \in Lists({P1, P2}, MaxPerformers - 1)})

FanoutEventReplies == Replies(Lists({E1, E2}, MaxEvents))

InitFanout ==
    HandlerInit({Undef}, FindEventsTools \cup {"find_event_recommendations"}, FanoutArgs,
                {"optional"})

NextFanout ==
    \/ Invoke
    \/ \E r \in FanoutPerformerReplies : PerformersSettle(r)
    \/ \E i \in 1..MaxPerformers : \E r \in FanoutEventReplies : BranchSettle(i, r)
    \/ \E r \in MainReplies : EventsLookupSettle(r)
    \/ \E r \in MainReplies : MainSettle(r)

SpecFanout == InitFanout /\ [][NextFanout]_vars

(* A fetchJson call is about to be made; no handler runs around it. *)
InitFetch ==
    /\ fpc = "idle"
    /\ attempt = 0
    /\ backoffMs = 0
    /\ waits = <<>>
    /\ hist = <<>>
    /\ fres = NoResult
    /\ ToolsOff
    /\ srv = <<>>

SpecFetch == InitFetch /\ [][FetchNext]_vars

-----------------------------------------------------------------------------
(* The server process (server.ts, and the stdio-only entry point).  gen is  *)
(* the generation of the entry point: "server_stderr" logs with             *)
(* console.error, "server_stdout" and "stdio_only" log with console.log.    *)
(* http tells whether MCP_HTTP selects the HTTP transport.                  *)

(* How many HTTP requests arrive, and how many signals are delivered. *)
MaxRequests == 2

MaxSignals == 2

(* The module has been loaded and startServer() has run up to its await of  *)
(* mcpServer.connect: the module-level signal handlers are registered.      *)
InitServer ==
    /\ FetchOff
    /\ ToolsOff
    /\ \E g \in {"server_stderr", "server_stdout", "stdio_only"} :
         \E h \in (IF g = "stdio_only" THEN {FALSE} ELSE BOOLEAN) :
           srv = [gen |-> g, http |-> h, phase |-> "starting", mcp |-> "new",
                  listening |-> FALSE, httpClosed |-> FALSE, sigint |-> FALSE,
                  pending |-> 0, signals |-> <<>>, stdout |-> <<>>, stderr |-> <<>>,
                  exit |-> -1, responses |-> <<>>, handled |-> 0]

(* mcpServer.connect(transport) resolves and startServer runs to its end:   *)
(* listen and the registration of the HTTP SIGINT handler, or the readiness *)
(* message of the stdio branch.                                              *)
Connected ==
    /\ srv.phase = "starting"
    /\ srv.exit = -1
    /\ LET msg == IF srv.http THEN "SeatGeek MCP server running over HTTP on port 8080"
                              ELSE "SeatGeek MCP server running over stdio"
           toErr == srv.gen = "server_stderr"
       IN srv' = [srv EXCEPT !.phase = "running", !.mcp = "connected",
                             !.listening = srv.http, !.sigint = srv.http,
                             !.stdout = IF toErr THEN @ ELSE Append(@, msg),
                             !.stderr = IF toErr THEN Append(@, msg) ELSE @]
    /\ UNCHANGED <<fetchVars, toolVars>>

(* The request listener of createServer, without the preflight branch. *)
RequestForwardAll(req, threw) ==
    /\ srv.http /\ srv.listening /\ srv.exit = -1
    /\ Len(srv.responses) < MaxRequests
    /\ srv' = [srv EXCEPT
                 !.handled = @ + 1,
                 !.responses = Append(@, [req |-> req, status |-> IF threw THEN 500 ELSE 0,
                                          headers |-> {}, body |-> "", transport |-> TRUE])]
    /\ UNCHANGED <<fetchVars, toolVars>>

(* The request listener of createServer: the CORS preflight, else           *)
(* transport.handleRequest, whose failure is answered with a 500.           *)
Request(req, threw) ==
    /\ srv.http /\ srv.listening /\ srv.exit = -1
    /\ Len(srv.responses) < MaxRequests
    /\ req.method = "OPTIONS" => ~threw
    /\ IF req.method = "OPTIONS"
         THEN srv' = [srv EXCEPT
                        !.responses = Append(@,
                            [req |-> req, status |-> 200,
                             headers |-> {<<"Access-Control-Allow-Origin", "*">>,
                                          <<"Access-Control-Allow-Methods", "GET, POST, OPTIONS">>,
                                          <<"Access-Control-Allow-Headers", "Content-Type">>},
                             body |-> "", transport |-> FALSE])]
       ELSE IF threw
         THEN srv' = [srv EXCEPT
                        !.handled = @ + 1,
                        !.stderr = Append(@, "Error handling request:"),
                        !.responses = Append(@,
                            [req |-> req, status |-> 500,
                             headers |-> {<<"Content-Type", "application/json">>},
                             body |-> "{\"error\":\"Internal server error\"}",
                             transport |-> TRUE])]
       ELSE \* the response is written by the transport
            srv' = [srv EXCEPT
                        !.handled = @ + 1,
                        !.responses = Append(@, [req |-> req, status |-> 0, headers |-> {},
                                                 body |-> "", transport |-> TRUE])]
    /\ UNCHANGED <<fetchVars, toolVars>>

(* A signal is delivered: every handler registered for it runs up to its    *)
(* await of mcpServer.close().                                               *)
SignalModuleActsInHttp(sig) ==
    /\ srv.exit = -1
    /\ Len(srv.signals) < MaxSignals
    /\ LET toErr == srv.gen = "server_stderr"
           inner == sig = "SIGINT" /\ srv.sigint
           msgs == <<"Shutting down SeatGeek MCP server...">>
                     \o (IF inner THEN <<"Shutting down HTTP server...">> ELSE <<>>)
       IN srv' = [srv EXCEPT
                    !.signals = Append(@, sig),
                    !.stdout = IF toErr THEN @ ELSE @ \o msgs,
                    !.stderr = IF toErr THEN @ \o msgs ELSE @,
                    !.listening = IF inner THEN FALSE ELSE @,
                    !.httpClosed = IF inner THEN TRUE ELSE @,
                    !.pending = @ + 1 + (IF inner THEN 1 ELSE 0)]
    /\ UNCHANGED <<fetchVars, toolVars>>

Signal(sig) ==
    /\ srv.exit = -1
    /\ Len(srv.signals) < MaxSignals
    /\ LET toErr == srv.gen = "server_stderr"
           \* the module-level handler: SIGINT acts in stdio mode only
           module == sig = "SIGTERM" \/ ~srv.http
           \* the handler registered inside startServer (HTTP mode)
           inner == sig = "SIGINT" /\ srv.sigint
           msgs == (IF module THEN <<"Shutting down SeatGeek MCP server...">> ELSE <<>>)
                     \o (IF inner THEN <<"Shutting down HTTP server...">> ELSE <<>>)
       IN srv' = [srv EXCEPT
                    !.signals = Append(@, sig),
                    !.stdout = IF toErr THEN @ ELSE @ \o msgs,
                    !.stderr = IF toErr THEN @ \o msgs ELSE @,
                    !.listening = IF inner THEN FALSE ELSE @,
                    !.httpClosed = IF inner THEN TRUE ELSE @,
                    !.pending = @ + (IF module THEN 1 ELSE 0) + (IF inner THEN 1 ELSE 0)]
    /\ UNCHANGED <<fetchVars, toolVars>>

(* mcpServer.close() resolves in a signal handler: process.exit(0) *)
Closed ==
    /\ srv.exit = -1
    /\ srv.pending > 0
    /\ srv' = [srv EXCEPT !.mcp = "closed", !.phase = "exited", !.exit = 0,
                          !.pending = @ - 1]
    /\ UNCHANGED <<fetchVars, toolVars>>

NextServer ==
    \/ Connected
    \/ \E m \in {"OPTIONS", "GET", "POST"} :
         \E s \in {"none", "issued"} :
           \E r \in (IF m # "POST" THEN {"none"}
                     ELSE IF s = "none" THEN {"initialize"} ELSE {"tools/call"}) :
             \E threw \in BOOLEAN :
               Request([method |-> m, session |-> s, rpc |-> r], threw)
    \/ \E sig \in {"SIGINT", "SIGTERM"} : Signal(sig)
    \/ Closed

SpecServer == InitServer /\ [][NextServer]_vars

(* The server process when every mcpServer.close() a signal handler awaits *)
(* resolves.                                                                *)
SpecServerFair == SpecServer /\ WF_vars(Closed)

-----------------------------------------------------------------------------
(* fetchJson: retry schedule and error classification *)

FetchDone == fpc \in {"returned", "raised"}

TimedOut(i) == i <= Len(hist) /\ IsTimeout(hist[i])

\* C1: two timeouts then a success return the third response after exactly 3
\* attempts with waits of 500 ms then 1000 ms; three timeouts raise after
\* exactly 3 attempts, with no wait after the last, a timeout-after-3 error.
C1_RetrySchedule ==
    /\ (Len(hist) = 3 /\ TimedOut(1) /\ TimedOut(2) /\ hist[3].kind = "ok")
          => /\ fpc = "returned"
             /\ fres = Returned(hist[3].data)
             /\ waits = <<500, 1000>>
    /\ (Len(hist) = 3 /\ TimedOut(1) /\ TimedOut(2) /\ TimedOut(3))
          => /\ fpc = "raised"
             /\ fres.msg = "Request timeout" /\ fres.n = 3
             /\ waits = <<500, 1000>>
    /\ ((TimedOut(1) /\ TimedOut(2)) /\ FetchDone) => Len(hist) = 3
    /\ Len(hist) <= 3

C1_Witness ==
    /\ fpc = "returned"
    /\ Len(hist) = 3 /\ TimedOut(1) /\ TimedOut(2)
    /\ waits = <<500, 1000>>

(* A response axios rejected whose status lies outside [500, 600). *)
IsClientError(o) == o.kind = "err" /\ HasResponse(o) /\ ~(o.status >= 500 /\ o.status < 600)

\* C2: an attempt that receives an HTTP error response with a status outside
\* [500, 600) ends the call at once: the transport's error is raised as
\* received, no backoff wait follows it and no further attempt is issued.
C2_NoRetryOnClientError ==
    \A i \in 1..Len(hist) :
        IsClientError(hist[i])
          => /\ i = Len(hist)
             /\ fpc = "raised"
             /\ fres = RaisedTransport(hist[i])
             /\ Len(waits) = i - 1

C2_Witness ==
    /\ fpc = "raised"
    /\ Len(hist) = 1
    /\ hist[1].status = 404
    /\ waits = <<>>

(* A retryable failure: a timeout or an aborted connection, a DNS failure, *)
(* a refused connection, or a response with a status in [500, 600).        *)
IsTransient(o) ==
    /\ o.kind = "err"
    /\ \/ o.code \in {"ECONNABORTED", "ETIMEDOUT", "ENOTFOUND", "ECONNREFUSED"}
       \/ (o.status >= 500 /\ o.status < 600)

(* How many of the attempts made so far failed with a retryable failure. *)
TransientFailures == Cardinality({i \in 1..Len(hist) : IsTransient(hist[i])})

\* C25: whatever the mix of retryable failures, fetchJson makes at most 3
\* attempts, has waited 500 ms after a first and 1000 ms after a second
\* retryable failure and nothing after a third, returns the data of the first
\* successful response, and has raised once three attempts have failed.
C25_RetryBudgetMixed ==
    fpc # "off" =>
      /\ Len(hist) <= 3
      /\ \A i \in 1..(Len(hist) - 1) : IsTransient(hist[i])
      /\ waits = SubSeq(<<500, 1000>>, 1, Min(TransientFailures, 2))
      /\ (hist # <<>> /\ hist[Len(hist)].kind = "ok")
           => (fpc = "returned" /\ fres = Returned(hist[Len(hist)].data))
      /\ (TransientFailures = Len(hist) /\ Len(hist) < 3 /\ fpc # "idle")
           => fpc \in {"get", "sleep"}
      /\ TransientFailures = 3 => fpc = "raised"

(* A refused connection, then a 503, then a response. *)
C25_Witness ==
    /\ Len(hist) = 3
    /\ hist[1] = CodeOutcome("ECONNREFUSED")
    /\ hist[2] = StatusOutcome(503)
    /\ hist[3].kind = "ok"
    /\ waits = <<500, 1000>>
    /\ fpc = "returned"

\* C27: the error fetchJson raises after 3 failed attempts is decided by the
\* third failure alone: "Request timeout after 3 attempts" for a timeout,
\* "Network error after 3 attempts" for ENOTFOUND / ECONNREFUSED, the
\* transport's own error for a 5xx response; and every call ends inside the
\* attempt loop, so "Request failed after 3 attempts" is never raised.
C27_ErrorByLastAttempt ==
    /\ (fpc = "raised" /\ Len(hist) = 3)
         => LET last == hist[3] IN
            /\ last.code \in {"ECONNABORTED", "ETIMEDOUT"}
                 => (fres.msg = "Request timeout" /\ fres.n = 3)
            /\ last.code \in {"ENOTFOUND", "ECONNREFUSED"}
                 => (fres.msg = "Network error" /\ fres.n = 3)
            /\ (last.status >= 500 /\ last.status < 600) => fres = RaisedTransport(last)
    /\ fres.msg # "Request failed"
    /\ fpc = "raised" => (hist # <<>> /\ Len(waits) = Len(hist) - 1)
    /\ fpc = "returned" => (hist # <<>> /\ hist[Len(hist)].kind = "ok")

(* A 503 and a refused connection, then a timeout: the timeout error. *)
C27_Witness ==
    /\ hist = <<StatusOutcome(503), CodeOutcome("ECONNREFUSED"), CodeOutcome("ETIMEDOUT")>>
    /\ fpc = "raised"
    /\ fres.msg = "Request timeout"

-----------------------------------------------------------------------------
(* Outbound queries *)

Has(q, key) == key \in DOMAIN q

(* The per_page the caller asked for (the schema default when left out). *)
Requested == Parse(args)["per_page"].n

PagingOk(c) ==
    /\ Has(c.query, "per_page")
         => /\ c.query["per_page"] = Num(Min(Requested, 50))
            /\ c.query["per_page"].n >= 1 /\ c.query["per_page"].n <= 50
    /\ Has(c.query, "page") => (c.query["page"].k = "number" /\ c.query["page"].n >= 1)
    /\ c.url # SECTION_INFO_ENDPOINT => Has(c.query, "per_page")

\* C3: every outbound query (lookups and fan-out sub-queries included) carries
\* per_page = min(requested, 50) within [1, 50] and a page >= 1, and a
\* requested per_page below 1 is rejected before any request is issued.
C3_PaginationClamp ==
    /\ \A i \in 1..Len(sent) : PagingOk(sent[i])
    /\ (args["per_page"] # Undef /\ args["per_page"].n < 1 /\ hpc # "args")
         => (sent = <<>> /\ hpc = "done" /\ hres.kind \in {"error_object", "thrown"})

(* The calls whose query comes out of one of the strict builders. *)
StrictCall(c) ==
    \/ tool \in FindEventsTools \cup {"list_events", "find_performer_recommendations",
                                      "get_performer_events"}
    \/ (tool \in {"find_event_recommendations", "retrieve_event_venue_information"}
          /\ c.url = EVENTS_ENDPOINT)

\* C4: no outbound query holds a key whose value is null or undefined, and a
\* query built by a strict builder (find_events, list_events,
\* find_performer_recommendations, get_performer_events, searchEvents) holds
\* no key whose value is the empty string.
C4_AbsentValueFiltering ==
    \A i \in 1..Len(sent) :
        \A key \in DOMAIN sent[i].query :
            /\ ~IsAbsent(sent[i].query[key])
            /\ StrictCall(sent[i]) => sent[i].query[key] # Str("")

C4_Witness ==
    /\ tool = "list_events"
    /\ args["q"] = Str("")
    /\ args["sort"] = Null
    /\ Len(sent) = 1
    /\ DOMAIN sent[1].query = {"per_page", "page"}

VenueKeys == {"venue.city", "venue.state", "venue.country", "venue"}

VenueGiven ==
    Truthy(args["venue_city"]) \/ Truthy(args["venue_state"]) \/ Truthy(args["venue_country"])

NoVenueKey(c) == DOMAIN c.query \cap VenueKeys = {}

(* The fan-out sub-queries (or the single slug query of the first           *)
(* generation) of find_events carry the slug and no venue key.              *)
SlugSubQueriesExclusive ==
    tool \in FindEventsTools =>
        /\ \A i \in 1..Len(sent) :
               Has(sent[i].query, "performers.slug") => NoVenueKey(sent[i])
        /\ \A j \in 1..Len(found.slugs) :
               /\ sent[1 + j].url = EVENTS_ENDPOINT
               /\ Has(sent[1 + j].query, "performers.slug")
               /\ sent[1 + j].query["performers.slug"] = found.slugs[j]

SlugAndVenueExclusive(tools) ==
    (tool \in tools /\ Truthy(args["performer_slug"]) /\ VenueGiven)
        => \A i \in 1..Len(sent) :
               /\ Has(sent[i].query, "performers.slug")
               /\ sent[i].query["performers.slug"] = args["performer_slug"]
               /\ NoVenueKey(sent[i])

FlatFilterKeys ==
    {"venue.city", "venue.state", "venue.country", "datetime_utc.gte", "datetime_utc.lte"}

(* The caller's venue and date arguments with the flat key of each. *)
FilterArgs ==
    {<<"venue_city", "venue.city">>, <<"venue_state", "venue.state">>,
     <<"venue_country", "venue.country">>, <<"start_utc", "datetime_utc.gte">>,
     <<"end_utc", "datetime_utc.lte">>}

\* C26: in every outbound query a venue or date filter is a scalar under its
\* flat dotted key (venue.city, venue.state, venue.country, datetime_utc.gte,
\* datetime_utc.lte) holding the caller's value; no query holds a nested
\* object value, such as a venue key holding {city, state, country}.
C26_FlatFilterKeys ==
    \A i \in 1..Len(sent) :
        LET query == sent[i].query IN
        /\ \A k \in DOMAIN query : query[k].k # "object"
        /\ ~Has(query, "venue")
        /\ \A m \in FilterArgs : Has(query, m[2]) => query[m[2]] = args[m[1]]

-----------------------------------------------------------------------------
(* Processing of the upstream payloads *)

Structured == Parse(args)["format"] # Str("json")

(* The final fetch delivered a body that is an array or an object. *)
GotBody == found.data.shape \in {"keyed", "bare", "nokey"}

(* The array the tool reads from the body it got. *)
Upstream == RawArray(tool, found.data)

(* The element passes the schema the listing tool validates it against. *)
PassesSchema(it) ==
    CASE tool \in EventTools -> EventSchema(schemaGen, it)
      [] tool \in PerformerTools -> PerformerSchema(it)
      [] tool \in VenueTools -> VenueSchema(it)
      [] tool = "get_recommendations" -> it.obj /\ IsNumber(it.score)
      [] tool = "seatgeek_recommendations" ->
           it.obj /\ IsNumber(it.score) /\ it.nested /\ PerformerSchema(it)
      [] OTHER -> FALSE

(* The listing tools whose element schema has a mandatory id. *)
IdTools == (ListingTools \ {"get_recommendations"})

\* C6: a listing tool in structured format returns exactly the subsequence of
\* the upstream elements that pass schema validation, in upstream order; an
\* element without its mandatory id contributes nothing; invalid elements
\* never make the call fail or return an error object (of three elements
\* with one lacking id, exactly two are returned).
C6_SkipInvalidElement ==
    (tool \in ListingTools /\ hpc = "done" /\ Structured /\ GotBody)
      => LET kept == SelectSeq(Upstream, PassesSchema)
         IN /\ hres.kind = "content" /\ hres.form = "list"
            /\ Len(hres.items) = Len(kept)
            /\ \A i \in 1..Len(kept) : hres.items[i].item = kept[i]
            /\ tool \in IdTools =>
                 \A i \in 1..Len(hres.items) : IsNumber(hres.items[i].item.id)
            /\ (/\ tool \in PerformerTools
                /\ Len(Upstream) = 3
                /\ Cardinality({i \in 1..3 : Upstream[i] = NoId}) = 1
                /\ \A i \in 1..3 : Upstream[i] = NoId \/ PassesSchema(Upstream[i]))
                 => Len(hres.items) = 2

C6_Witness ==
    /\ tool = "list_performers"
    /\ hpc = "done"
    /\ Structured
    /\ Len(Upstream) = 3
    /\ Upstream[2] = NoId
    /\ Len(hres.items) = 2
    /\ hres.items[1].item = Upstream[1]
    /\ hres.items[2].item = Upstream[3]

(* A complete upstream event that carries no venue_display key. *)
PlainEvent(it) ==
    /\ it.obj /\ IsNumber(it.id) /\ it.rest
    /\ NestedVenueOk(it.venue)
    /\ it.vd = Undef

(* The venue_display the event is to appear with. *)
DisplayAsDerived(it, vd) ==
    LET city == it.venue.city
        state == it.venue.state
    IN IF it.venue.k = "object" /\ Truthy(city) /\ Truthy(state)
         THEN vd = Str(city.s \o ", " \o state.s)
       ELSE IF it.venue.k = "object" /\ Truthy(city) THEN vd = city
       ELSE IF it.venue.k = "object" /\ Truthy(state) THEN vd = state
       ELSE vd \in {Undef, Null}

\* C7: every upstream event (carrying no venue_display key) returned to
\* list_events / get_performer_events in structured format appears in the
\* output, with venue_display "city, state" when its venue has both, the one
\* present value when it has one, and absent/null otherwise.
C7_VenueDisplayDerivation ==
    (/\ tool \in {"list_events", "get_performer_events"}
     /\ hpc = "done" /\ Structured /\ found.data.shape = "keyed"
     /\ \A i \in 1..Len(found.data.items) : PlainEvent(found.data.items[i]))
      => /\ hres.kind = "content"
         /\ Len(hres.items) = Len(found.data.items)
         /\ \A i \in 1..Len(found.data.items) :
              /\ hres.items[i].item = found.data.items[i]
              /\ DisplayAsDerived(found.data.items[i], hres.items[i].vd)

\* C9: a section tool in structured format whose fetched payload fails
\* SectionInfo validation returns that payload unmodified as its content;
\* it neither throws nor returns an error object.
C9_SectionInfoFallback ==
    (/\ tool \in SectionLikeTools
     /\ hpc = "done" /\ Structured
     /\ found.data.shape # "none"
     /\ ~SectionInfoSchema(found.data))
      => hres = Content("raw", found.data, <<>>)

C9_Witness ==
    /\ tool = "get_event_sections"
    /\ hpc = "done" /\ Structured
    /\ found.data.sections = "array"
    /\ found.data.extra
    /\ hres.kind = "content"
    /\ hres.payload = found.data

\* C14: a discovery, listing or recommendation handler that fails at the top
\* level (the arguments do not validate, or the final fetch fails) resolves
\* with the structured error block; the handler never throws or rejects.
C14_StructuredFailure ==
    (tool \in Tools \ SectionLikeTools /\ hpc = "done")
      => /\ hres.kind # "thrown"
         /\ (~ValidArgs(tool, args) \/ found.data = NoPayload)
              => hres.kind = "error_object"

(* The tools that look performers or events up with searchPerformers /     *)
(* searchEvents.                                                           *)
HelperTools ==
    FindEventsTools \cup {"find_event_recommendations", "find_performer_recommendations",
                          "retrieve_event_venue_information"}

(* The list a lookup helper is to resolve with, given how its fetch settled. *)
Resolved(r) == IF r.st = "ok" /\ r.data.shape = "keyed" THEN r.data.items ELSE <<>>

C19_DistinguishNoEvents ==
    (tool = "retrieve_event_venue_information" /\ found.eReply # Pending)
      => /\ (found.eReply.st = "ok" /\ Resolved(found.eReply) = <<>>)
              => (hpc = "done" /\ hres = NoEventsFound /\ Len(sent) = 1)
         /\ found.eReply.st = "fail"
              => (hpc = "done" /\ hres # NoEventsFound
                    /\ hres.kind \in {"thrown", "error_object"})

-----------------------------------------------------------------------------
(* The slug fan-out of the discovery tools *)

IdsOf(events) == {events[i].id : i \in 1..Len(events)}

(* The event array branch j delivered. *)
BranchEvents(j) == SearchResult(found.branches[j])

(* Every branch has settled and the handler has merged their arrays. *)
FanoutMerged ==
    /\ found.branches # <<>>
    /\ hpc # "fanout"
    /\ \A j \in 1..Len(found.branches) : found.branches[j] # Pending
    /\ tool = "find_events" =>
         \A j \in 1..Len(found.branches) :
            found.branches[j].st = "ok" /\ found.branches[j].data.shape # "null"

(* The payloads the upstream delivered to the fetches whose result the     *)
(* handler returns: those of the slug branches when find_events has merged  *)
(* them, else that of the final fetch.                                      *)
UpstreamPayloads ==
    IF tool = "find_events" /\ FanoutMerged
      THEN {found.branches[j].data : j \in 1..Len(found.branches)}
      ELSE {found.data}

(* C16: with format = "json", when the upstream calls succeeded, the text   *)
(* the tool returns is the serialization of a payload received from         *)
(* upstream, untouched; the fan-out path of find_events included.           *)
C16_RawPassthrough ==
    (hpc = "done" /\ ValidArgs(tool, args) /\ Parse(args)["format"] = Str("json")
       /\ hres.kind = "content")
      => /\ hres.form = "raw"
         /\ hres.payload \in UpstreamPayloads

\* C8: after a fan-out of find_events or find_event_recommendations over any
\* number of slug branches, the merged list holds each event id exactly once
\* and holds every id that appeared in at least one branch.
C8_DedupeById ==
    FanoutMerged
      => /\ \A i, j \in 1..Len(found.merged) :
                found.merged[i].id = found.merged[j].id => i = j
         /\ IdsOf(found.merged) = UNION {IdsOf(BranchEvents(j)) : j \in 1..Len(found.branches)}
         /\ (tool = "find_events" /\ Structured)
              => /\ hres.kind = "content"
                 /\ Len(hres.items) = Len(found.merged)
                 /\ \A i \in 1..Len(found.merged) : hres.items[i].item = found.merged[i]

C8_Witness ==
    /\ tool = "find_events"
    /\ Len(found.branches) = 2
    /\ BranchEvents(1) = <<E1, E2>>
    /\ BranchEvents(2) = <<E2, E1>>
    /\ found.merged = <<E1, E2>>
    /\ hpc = "done"

(* The events of all branches, branch after branch in the order of the     *)
(* unique-slug list.                                                        *)
InSlugOrder ==
    LET RECURSIVE UpTo(_)
        UpTo(n) == IF n = 0 THEN <<>> ELSE UpTo(n - 1) \o BranchEvents(n)
    IN UpTo(Len(found.branches))

(* Of every id, only the earliest occurrence in the list. *)
EarliestOccurrences(events) ==
    LET Earliest(k) == \A m \in 1..(k - 1) : events[m].id # events[k].id
        RECURSIVE From(_)
        From(k) == IF k > Len(events) THEN <<>>
                   ELSE (IF Earliest(k) THEN <<events[k]>> ELSE <<>>) \o From(k + 1)
    IN From(1)

\* C20: in find_events the merge of the slug fan-out does not depend on the
\* order in which the concurrent /events fetches complete: once all branches
\* have settled, the merged list is the concatenation of the branch results
\* in the order of the unique-slug list, with only the earliest occurrence of
\* every id kept; while a branch is pending nothing is merged, and unless a
\* branch has failed the handler is still waiting.
C20_MergeIndependentOfTiming ==
    (tool = "find_events" /\ found.branches # <<>>)
      => /\ (\E j \in 1..Len(found.branches) : found.branches[j] = Pending)
              => /\ found.merged = <<>>
                 /\ (\A j \in 1..Len(found.branches) : found.branches[j].st # "fail")
                      => (hpc = "fanout" /\ hres = NoHres)
         /\ FanoutMerged
              => /\ Len(found.order) = Len(found.branches)
                 /\ found.merged = EarliestOccurrences(InSlugOrder)
                 /\ hres.kind = "content"
                 /\ Structured => /\ Len(hres.items) = Len(found.merged)
                                  /\ \A i \in 1..Len(found.merged) :
                                        hres.items[i].item = found.merged[i]
                 /\ ~Structured => hres.payload = Keyed(found.merged)

(* The second branch completed first, and the event both branches hold is  *)
(* kept at its place in the first.                                          *)
C20_Witness ==
    /\ tool = "find_events"
    /\ found.order = <<2, 1>>
    /\ BranchEvents(1) = <<E2>>
    /\ BranchEvents(2) = <<E1, E2>>
    /\ found.merged = <<E2, E1>>
    /\ hpc = "done"

(* The /events fetches the handler has issued. *)
IsEventsCall(c) == c.url = EVENTS_ENDPOINT

EventsCalls == SelectSeq(sent, IsEventsCall)

(* The query carries q and the caller's venue and date filters, no slug. *)
DirectQuery(query) ==
    /\ Has(query, "q") /\ query["q"] = args["q"]
    /\ ~Has(query, "performers.slug")
    /\ Truthy(args["venue_city"])
         => (Has(query, "venue.city") /\ query["venue.city"] = args["venue_city"])
    /\ Truthy(args["start_utc"])
         => (Has(query, "datetime_utc.gte") /\ query["datetime_utc.gte"] = args["start_utc"])

\* C10: when find_events is called with a non-empty q and searchPerformers
\* returns an empty list (a swallowed lookup failure included), the handler
\* issues exactly one /events fetch, carrying q with the venue and date
\* filters and no performers.slug; no slug-based fetch is issued.
C10_NoPerformerFallback ==
    (/\ tool \in FindEventsTools
     /\ Truthy(args["q"])
     /\ found.looked /\ found.performers = <<>>)
      => /\ Len(EventsCalls) = 1
         /\ DirectQuery(EventsCalls[1].query)
         /\ found.branches = <<>>

(* The distinct non-empty slugs among the performers the lookup returned. *)
SlugsFound == {s \in {found.performers[i].slug : i \in 1..Len(found.performers)} : Truthy(s)}

(* The /events fetches filtered by a performer slug. *)
IsSlugCall(c) == IsEventsCall(c) /\ Has(c.query, "performers.slug")

SlugCalls == SelectSeq(sent, IsSlugCall)

(* The sub-query of a slug: the slug, per_page, page and the date filters,  *)
(* neither q nor a venue filter.                                             *)
SlugQuery(query, perPage, page) ==
    /\ query["performers.slug"] \in SlugsFound
    /\ Has(query, "per_page") /\ query["per_page"] = perPage
    /\ Has(query, "page") /\ query["page"] = page
    /\ Has(query, "datetime_utc.gte") <=> Truthy(args["start_utc"])
    /\ Has(query, "datetime_utc.gte") => query["datetime_utc.gte"] = args["start_utc"]
    /\ Has(query, "datetime_utc.lte") <=> Truthy(args["end_utc"])
    /\ Has(query, "datetime_utc.lte") => query["datetime_utc.lte"] = args["end_utc"]
    /\ ~Has(query, "q")
    /\ \A k \in {"venue.city", "venue.state", "venue.country", "venue"} : ~Has(query, k)

IsRecommendationsCall(c) == c.url = RECOMMENDATIONS_ENDPOINT

RecommendationsCalls == SelectSeq(sent, IsRecommendationsCall)

(* A searchEvents(q, per_page, {}) fetch: q, and no slug filter. *)
IsQSearch(c) ==
    /\ IsEventsCall(c)
    /\ Has(c.query, "q") /\ c.query["q"] = args["q"]
    /\ ~Has(c.query, "performers.slug")

(* The slug branches have all settled and none delivered an event. *)
NoSlugEvents ==
    /\ found.branches # <<>>
    /\ \A j \in 1..Len(found.branches) :
          found.branches[j] # Pending /\ BranchEvents(j) = <<>>

\* C22: find_event_recommendations with a non-empty q: when performers with
\* slugs were found but the per-slug event fetches yielded no event, and when
\* no performer was found, the handler has called searchEvents(q, per_page, {})
\* before the /recommendations fetch, whose events.id is the id of the first
\* event of that search.
C22_SeedFallback ==
    (/\ tool = "find_event_recommendations"
     /\ Truthy(args["q"])
     /\ found.looked
     /\ found.performers = <<>> \/ NoSlugEvents
     /\ RecommendationsCalls # <<>>)
      => /\ \E i \in 1..Len(sent) : IsQSearch(sent[i])
         /\ found.eReply # Pending
         /\ Len(found.events) > 0
              => /\ Has(RecommendationsCalls[1].query, "events.id")
                 /\ RecommendationsCalls[1].query["events.id"] = found.events[1].id

(* The event id resolved from q: that of the first event of the merged slug *)
(* branches, else of the first event of the event search.                   *)
ResolvedEvent ==
    IF found.merged # <<>> THEN found.merged[1].id
    ELSE IF found.events # <<>> THEN found.events[1].id
    ELSE Undef

(* The performer id resolved from q: that of the first performer found. *)
ResolvedPerformer == IF found.performers # <<>> THEN found.performers[1].id ELSE Undef

(* The geo filters are in the query as the caller gave them, the date      *)
(* filters under their datetime_utc keys.                                   *)
FiltersCarried(query) ==
    /\ \A k \in {"geoip", "lat", "lon", "postal_code", "range"} :
          /\ Has(query, k) <=> ~IsAbsent(Parse(args)[k])
          /\ Has(query, k) => query[k] = args[k]
    /\ Has(query, "datetime_utc.gte") <=> Truthy(args["start_utc"])
    /\ Has(query, "datetime_utc.gte") => query["datetime_utc.gte"] = args["start_utc"]
    /\ Has(query, "datetime_utc.lte") <=> Truthy(args["end_utc"])
    /\ Has(query, "datetime_utc.lte") => query["datetime_utc.lte"] = args["end_utc"]

EventSeeded(query) ==
    /\ Has(query, "events.id") <=> Truthy(ResolvedEvent)
    /\ Has(query, "events.id") => query["events.id"] = ResolvedEvent

FindEventRecommendationsTools == {"find_event_recommendations", "find_event_recommendations_v1"}

IsPerformerRecommendationsCall(c) == c.url = RECOMMENDATIONS_ENDPOINT \o "/performers"

PerformerRecommendationsCalls == SelectSeq(sent, IsPerformerRecommendationsCall)

HasTruthyId(item) == Truthy(item.id)

(* The distinct non-zero ids of the list a lookup resolved with, in the    *)
(* order of their first occurrence, joined with commas.                     *)
IdList(r) ==
    LET items == SelectSeq(EarliestOccurrences(Resolved(r)), HasTruthyId)
        RECURSIVE From(_)
        From(k) == IF k > Len(items) THEN ""
                   ELSE ToString(items[k].id.n) \o (IF k < Len(items) THEN "," ELSE "")
                          \o From(k + 1)
    IN Str(From(1))

(* The key holds the id list of the lookup, and is absent when the lookup  *)
(* was not requested, failed or found no id.                                 *)
IdsCarried(query, key, r) ==
    /\ Has(query, key) <=> IdList(r) # Str("")
    /\ Has(query, key) => query[key] = IdList(r)

FailedBranches == {j \in 1..Len(found.branches) : found.branches[j].st = "fail"}

\* C28: when a per-slug /events fetch of the find_events fan-out fails, the
\* joint wait ends with that failure: no branch result is merged, and the
\* handler issues exactly one further /events fetch, the direct one with q and
\* the venue and date filters, whether or not other branches have settled.
\* The call ends with the structured error only if that fetch fails too, and
\* with the events of that fetch otherwise.
C28_BranchFailure ==
    (tool = "find_events" /\ FailedBranches # {})
      => /\ Cardinality(FailedBranches) = 1
         /\ found.merged = <<>>
         /\ hpc \in {"main", "done"}
         /\ Len(EventsCalls) = Len(found.branches) + 1
         /\ DirectQuery(EventsCalls[Len(EventsCalls)].query)
         /\ \A i \in 1..Len(found.branches) : IsSlugCall(EventsCalls[i])
         /\ hpc = "done"
              => IF found.data = NoPayload
                   THEN hres.kind = "error_object"
                   ELSE /\ hres.kind = "content"
                        /\ Structured
                             => /\ Len(hres.items) = Len(found.data.items)
                                /\ \A i \in 1..Len(hres.items) :
                                      hres.items[i].item = found.data.items[i]
                        /\ ~Structured => hres.payload = found.data

(* The second branch failed while the first was in flight; the direct      *)
(* fetch delivered an event, which the call returned.                       *)
C28_Witness ==
    /\ tool = "find_events"
    /\ Len(found.branches) = 2
    /\ found.branches[1] = Pending
    /\ found.branches[2] = Fail
    /\ found.data = Keyed(<<E1>>)
    /\ hpc = "done"
    /\ hres.kind = "content"

(* The performer lookups the handler has issued. *)
IsPerformersCall(c) == c.url = PERFORMERS_ENDPOINT

(* The /events fetches without a slug filter. *)
IsDirectCall(c) == IsEventsCall(c) /\ ~Has(c.query, "performers.slug")

\* C30: a call of find_events issues at most one performer lookup, one
\* /events fetch per distinct slug the lookup returned, and one fallback
\* /events fetch; no lookup is entered again after falling back; and one
\* logical fetch makes at most 3 attempts.
C30_BoundedAttempts ==
    /\ Len(hist) <= MAX_RETRIES + 1
    /\ tool \in FindEventsTools
         => /\ Len(SelectSeq(sent, IsPerformersCall)) <= 1
            /\ Len(SlugCalls) <= Cardinality(SlugsFound)
            /\ Len(SelectSeq(sent, IsDirectCall)) <= 1
            /\ Len(sent) <= 1 + Cardinality(SlugsFound) + 1
            /\ \A i \in 2..Len(sent) : ~IsPerformersCall(sent[i])

-----------------------------------------------------------------------------
(* The server process *)

(* The responses given to OPTIONS requests. *)
Preflights == {i \in 1..Len(srv.responses) : srv.responses[i].req.method = "OPTIONS"}

\* C12: every OPTIONS request, in any session state and with or without a
\* session header, is answered with status 200, an empty body and the three
\* CORS headers, and transport.handleRequest is never invoked for it.
C12_CorsPreflight ==
    /\ \A i \in Preflights :
         /\ srv.responses[i].status = 200
         /\ srv.responses[i].body = ""
         /\ srv.responses[i].headers =
               {<<"Access-Control-Allow-Origin", "*">>,
                <<"Access-Control-Allow-Methods", "GET, POST, OPTIONS">>,
                <<"Access-Control-Allow-Headers", "Content-Type">>}
         /\ ~srv.responses[i].transport
    /\ srv.handled = Len(srv.responses) - Cardinality(Preflights)

C12_Witness ==
    /\ Len(srv.responses) = 2
    /\ srv.responses[1].req = [method |-> "OPTIONS", session |-> "none", rpc |-> "none"]
    /\ srv.responses[1].status = 200
    /\ srv.responses[2].req.method = "POST"
    /\ srv.handled = 1

\* C17: when the process exits on SIGINT or SIGTERM, in either transport
\* mode, the handlers have closed the HTTP server if it was running and have
\* closed the protocol server, and the exit status is 0.
C17_GracefulShutdown ==
    srv.exit # -1
      => /\ srv.signals # <<>>
         /\ srv.exit = 0
         /\ srv.mcp = "closed"
         /\ ~srv.listening

\* C18: in stdio mode nothing but protocol frames is written to standard
\* output: the readiness message and every diagnostic go to standard error.
C18_StdioWireChannel ==
    ~srv.http => srv.stdout = <<>>

(* The signals delivered so far. *)
Delivered(sig) == \E i \in 1..Len(srv.signals) : srv.signals[i] = sig

(* HTTP mode, and no SIGINT has reached the handler registered inside      *)
(* startServer: no SIGINT handler has closed anything or exits.             *)
SigintWithoutEffect ==
    (srv.http /\ ~srv.httpClosed /\ ~Delivered("SIGTERM"))
      => (srv.exit = -1 /\ srv.pending = 0 /\ srv.mcp # "closed"
            /\ (srv.phase = "running" => srv.listening))

(* A SIGINT has reached the handler registered inside startServer: it was  *)
(* registered after connect and listen, has called server.close() and       *)
(* awaits mcpServer.close(), and the process exits with 0 only.             *)
SigintShutsDown ==
    srv.httpClosed
      => /\ srv.http /\ srv.sigint /\ srv.mcp # "new"
         /\ Delivered("SIGINT")
         /\ ~srv.listening
         /\ srv.exit = 0 \/ (srv.exit = -1 /\ srv.pending > 0)

\* C29: in HTTP mode the module-level SIGINT handler closes nothing and never
\* exits; only the handler registered inside startServer, after
\* mcpServer.connect has resolved and listen was called, closes the HTTP
\* server and the protocol server and exits with 0.  A SIGINT delivered after
\* that registration leads to exit status 0; one delivered before it leaves
\* the process running with nothing closed.
C29_SigintDuringStartup ==
    /\ [](SigintWithoutEffect /\ SigintShutsDown)
    /\ (srv.httpClosed ~> srv.exit = 0)

(* A SIGINT arrived before the registration: the server came up afterwards *)
(* and is listening, nothing was closed.                                     *)
C29_Witness ==
    /\ srv.http
    /\ srv.signals = <<"SIGINT">>
    /\ srv.phase = "running"
    /\ srv.listening
    /\ ~srv.httpClosed
    /\ srv.exit = -1

====
